---------------------------- MODULE Spec2Model ----------------------------
(***************************************************************************)
(* A model of swapi-client-python:                                         *)
(*                                                                         *)
(*   - SWAPIClient (v2/client.py): lazy login, the login lock, the         *)
(*     one-shot retry after a 401 and the error mapping of _request;       *)
(*   - the fetch-all traversals: SyncResource.all / AsyncResource.all      *)
(*     (resources/_base.py), SWApiClient.get_all_pages (client.py) and     *)
(*     the older SWApiClient.get_all_pages (old_client.py);                *)
(*   - SWAPIQuerySet (v2/queryset.py): the builder state, get(), count(),  *)
(*     all(), first() and exists();                                        *)
(*   - APIModel (v2/models/base.py) and Commission                         *)
(*     (v2/models/commission.py): dirty tracking, save(), delete() and     *)
(*     the attributes of a Commission;                                     *)
(*   - build_params (_params.py): keyword arguments to wire parameters,    *)
(*     and the filter-key parsers of _params.py and v2/utils.py;           *)
(*   - Q (v2/q.py): the boolean expression objects, and what               *)
(*     SWAPIQuerySet.filter / exclude do when given one.                   *)
(*                                                                         *)
(* Each of them has its own specification (Spec and FairSpec, PageSpec,    *)
(* QsSpec and ListSpec, RecSpec, ParamSpec, QSpec); the state of the       *)
(* others is pinned in it.                                                 *)
(*                                                                         *)
(* SWAPIClient runs on one asyncio event loop: a coroutine runs without    *)
(* interruption from one await that suspends to the next.  Every action    *)
(* of the transport model is one such uninterrupted stretch of _request.   *)
(***************************************************************************)
EXTENDS Integers, Sequences, FiniteSets, TLC

(***************************************************************************)
(* Bounds of the model.                                                    *)
(***************************************************************************)
\* number of concurrent _request calls on one SWAPIClient; the calls are
\* numbered in the order in which they are made
NReq == 2

Req == 1..NReq

\* None / "" / a response without a token field: every falsy token is 0
NoTok == 0
\* The login endpoint hands out a new token string for every login it
\* accepts: the one for r's login at line 105, the one for r's login at
\* line 118.
TokenOf(r, at) == IF at = "login1" THEN 2 * r - 1 ELSE 2 * r

\* HTTP statuses the server may answer with: success, a redirect (httpx does
\* not follow redirects unless asked to), token expiry, a server error.
Statuses == {200, 302, 401, 500}
\* what resp.text may be: empty, a JSON document, something json() rejects
Bodies == {"empty", "json", "garbage"}

VARIABLES
    \* ---- SWAPIClient ----
    token,       \* self.token (NoTok = None)
    lockHolder,  \* the request holding self._login_lock, 0 when it is free
    waiters,     \* the requests suspended in self._login_lock.acquire(), FIFO
    pc,          \* where each _request call is suspended
    res,         \* how each _request call ended
    sent,        \* per request: the tokens its sends carried, in order
    resp,        \* per request: the statuses it received, in order
    initLogins,  \* per request: login() calls made at line 105
    reLogins,    \* per request: login() calls made at line 118
    tok1,        \* per request: the token its login at line 105 stored
    tok2,        \* per request: the token its login at line 118 stored
    sawLogin,    \* per request, from its acquire() of the login lock until
                 \* its next response: another request's login stored a
                 \* token while this one was suspended in acquire()
    \* ---- one fetch-all traversal and the server it runs against ----
    trav,        \* a record: the traversal, its caller and its server
    \* ---- one SWAPIQuerySet and the last operation executed on it ----
    qs,          \* a record: the builder state and the last operation
    \* ---- one APIModel / Commission record ----
    record,      \* a record: the instance and the last operation on it
    \* ---- the filter expressions ----
    expr         \* a record: the last build_params call and the Q objects

authVars == <<token, lockHolder, waiters, pc, res, sent, resp,
              initLogins, reLogins, tok1, tok2, sawLogin>>

pageVars == <<trav>>

vars == <<authVars, pageVars, qs, record, expr>>

\* the parts of trav
algo == trav.algo            \* which traversal runs
srv == trav.srv              \* how the server behaves
srvTotal == trav.srvTotal    \* the number of items the well-behaved server holds
limit == trav.limit          \* the requested page size
given == trav.given          \* the paging arguments the caller passed besides
cursor == trav.cursor        \* page (a page number from 1) or offset (from 0)
nItems == trav.nItems        \* len(items) / len(all_items)
fetches == trav.fetches      \* page fetches made so far
pageRequest == trav.request  \* the query parameters of the last page fetch
lastLen == trav.lastLen      \* the number of items of the last page fetched
lastTotal == trav.lastTotal  \* meta.total of the last page (NoMeta: absent)
pcT == trav.pcT              \* "loop" while the traversal runs, "done" after
                             \* its break, "TypeError" after that exception

\* the parts of qs
queryset == qs.queryset  \* the builder state of the SWAPIQuerySet
qsOp == qs.op            \* the last operation executed on it
qsGets == qs.gets        \* the client.get calls that operation made
qsRes == qs.res          \* what that operation returned or raised

\* the parts of expr
kwargsGiven == expr.kwargs  \* the keyword arguments of the build_params call
wire == expr.wire      \* the dict that call returned
again == expr.again    \* the dict a second call with them returned
nCalls == expr.calls  \* the number of build_params calls made
heap == expr.heap      \* the Q objects built so far, in creation order
qop == expr.qop        \* the last operation on Q objects
root == expr.root      \* the Q object last given to filter() / exclude()
keyParsed == expr.parsed  \* the last key parsed and what each parser returned

\* the parts of record
cls == record.cls                \* the class of the record
fields == record.fields          \* the public entries of its __dict__
original == record.original      \* self._original
dirty == record.dirty            \* self._dirty
attributes == record.attributes  \* what self.attributes is bound to
attributesById == record.attributesById    \* self._attributes_by_id
attributesDirty == record.attributesDirty  \* self._attributes_dirty
recOp == record.op               \* the last operation executed on it
recCalls == record.calls         \* the client calls that operation made
recRes == record.res             \* how that operation ended
deleted == record.deleted        \* a delete() of it has succeeded

(***************************************************************************)
(* asyncio.Lock as SWAPIClient uses it (async with self._login_lock).      *)
(* acquire() takes the lock at once when it is free and nobody waits, and  *)
(* otherwise suspends at the end of a FIFO queue; release() wakes the      *)
(* first waiter, and nobody can take the lock before the woken waiter      *)
(* runs, so the lock is handed to it.                                      *)
(***************************************************************************)
LockNeverHeld == TRUE

LockFree == lockHolder = 0 /\ waiters = <<>>

Release(ws) ==
    IF ws = <<>> THEN [holder |-> 0, waiters |-> <<>>]
    ELSE [holder |-> Head(ws), waiters |-> Tail(ws)]

\* leaving "async with self._login_lock" through an exception or a
\* cancellation: __aexit__ releases the lock
LockExitOnErrorLeak(h, ws) == [holder |-> h, waiters |-> ws]

LockExitOnError(h, ws) == Release(ws)

Without(ws, r) == SelectSeq(ws, LAMBDA x : x # r)

(***************************************************************************)
(* SWAPIClient.login                                                       *)
(***************************************************************************)
\* login() stores the token of the response: status below 400 and a truthy
\* "token" field
LoginAcceptsAnyBody(status, tok) == status < 400

LoginAccepts(status, tok) == status < 400 /\ tok # NoTok

(***************************************************************************)
(* SWAPIClient._request                                                    *)
(***************************************************************************)
\* "if not self.token" at line 102
NoToken(tok) == tok = NoTok

\* "if not self.token" at line 104, after the lock was acquired
DoubleCheckSkipped(tok) == TRUE

DoubleCheck(tok) == tok = NoTok

\* "if resp.status_code == 401" at line 116
IsExpired(status) == status = 401

\* the token the retried request carries: _headers() is evaluated again
\* for the second client.request (line 124)
RetryHeadersStale(cur, old) == old

RetryHeaders(cur, old) == cur

\* lines 128-142: the outcome of _request for its last response
Finish(status, body) ==
    IF status >= 400 THEN "SWAPIError"
    ELSE IF body = "empty" THEN "return"
    ELSE IF body = "garbage" THEN "SWAPIErrorInvalidJSON"
    ELSE "return"

AuthInit ==
    /\ token = NoTok
    /\ lockHolder = 0
    /\ waiters = <<>>
    /\ pc = [r \in Req |-> "idle"]
    /\ res = [r \in Req |-> "none"]
    /\ sent = [r \in Req |-> <<>>]
    /\ resp = [r \in Req |-> <<>>]
    /\ initLogins = [r \in Req |-> 0]
    /\ reLogins = [r \in Req |-> 0]
    /\ tok1 = [r \in Req |-> NoTok]
    /\ tok2 = [r \in Req |-> NoTok]
    /\ sawLogin = [r \in Req |-> FALSE]

\* no traversal runs
PageIdle == trav = <<>>

\* no SWAPIQuerySet is in use
QsIdle == qs = <<>>

\* no record is in use
RecIdle == record = <<>>

\* no filter expression is in use
ExprIdle == expr = <<>>

\* r sends its request with the current token and suspends on the response
SendFirst(r) ==
    /\ pc' = [pc EXCEPT ![r] = "send1"]
    /\ sent' = [sent EXCEPT ![r] = Append(@, token)]

\* r calls login() at line 105 and suspends on the login POST
CallLogin1(r) ==
    /\ pc' = [pc EXCEPT ![r] = "login1"]
    /\ initLogins' = [initLogins EXCEPT ![r] = @ + 1]

\* r calls login() at line 118 and suspends on the login POST
CallLogin2(r) ==
    /\ pc' = [pc EXCEPT ![r] = "login2"]
    /\ reLogins' = [reLogins EXCEPT ![r] = @ + 1]

\* _request is called: lines 97-113 up to the first suspension
Start(r) ==
    /\ UNCHANGED <<pageVars, qs, record, expr>>
    /\ pc[r] = "idle"
    /\ \A x \in 1..(r - 1) : pc[x] # "idle"
    /\ IF NoToken(token)
       THEN IF LockFree
            THEN \* the lock is taken without suspending; the token is
                 \* still missing at line 104
                 IF DoubleCheck(token)
                 THEN /\ lockHolder' = r
                      /\ CallLogin1(r)
                      /\ UNCHANGED <<waiters, sent>>
                 ELSE /\ SendFirst(r)
                      /\ UNCHANGED <<lockHolder, waiters, initLogins>>
            ELSE /\ waiters' = Append(waiters, r)
                 /\ pc' = [pc EXCEPT ![r] = "wait1"]
                 /\ UNCHANGED <<lockHolder, sent, initLogins>>
       ELSE /\ SendFirst(r)
            /\ UNCHANGED <<lockHolder, waiters, initLogins>>
    /\ sawLogin' = [sawLogin EXCEPT ![r] = FALSE]
    /\ UNCHANGED <<token, res, resp, reLogins, tok1, tok2>>

\* the requests suspended in acquire() other than r
Waiting(r) == {x \in Req \ {r} : pc[x] \in {"wait1", "wait2"}}

\* a waiter that was woken resumes in the critical section of line 103 and
\* checks the token again (line 104)
Enter1(r) ==
    /\ UNCHANGED <<pageVars, qs, record, expr>>
    /\ pc[r] = "wait1"
    /\ lockHolder = r
    /\ IF DoubleCheck(token)
       THEN /\ CallLogin1(r)
            /\ UNCHANGED <<lockHolder, waiters, sent>>
       ELSE /\ lockHolder' = Release(waiters).holder
            /\ waiters' = Release(waiters).waiters
            /\ SendFirst(r)
            /\ UNCHANGED initLogins
    /\ UNCHANGED <<token, res, resp, reLogins, tok1, tok2, sawLogin>>

\* a waiter that was woken resumes in the critical section of line 117:
\* login() is called whatever the token is (line 118)
Enter2(r) ==
    /\ UNCHANGED <<pageVars, qs, record, expr>>
    /\ pc[r] = "wait2"
    /\ lockHolder = r
    /\ CallLogin2(r)
    /\ UNCHANGED <<token, lockHolder, waiters, res, sent, resp, initLogins,
                   tok1, tok2, sawLogin>>

\* login(), lines 56-74: the login POST is answered with `status` and a
\* "token" field `tok` (NoTok: no such field, or an empty one).  The token
\* is stored or SWAPIAuthError is raised; either way the httpx client of
\* line 55 is closed next, which may suspend.
LoginResp(r, status, tok) ==
    /\ UNCHANGED <<pageVars, qs, record, expr>>
    /\ pc[r] \in {"login1", "login2"}
    /\ pc' = [pc EXCEPT ![r] = IF pc[r] = "login1" THEN "close1" ELSE "close2"]
    /\ IF ~LoginAccepts(status, tok)
       THEN /\ res' = [res EXCEPT ![r] = "SWAPIAuthError"]
            /\ sawLogin' = [sawLogin EXCEPT ![r] = FALSE]
            /\ UNCHANGED <<token, tok1, tok2>>
       ELSE /\ token' = tok
            /\ tok1' = IF pc[r] = "login1" THEN [tok1 EXCEPT ![r] = tok] ELSE tok1
            /\ tok2' = IF pc[r] = "login2" THEN [tok2 EXCEPT ![r] = tok] ELSE tok2
            /\ sawLogin' = [x \in Req |-> x # r /\ (sawLogin[x] \/ x \in Waiting(r))]
            /\ UNCHANGED res
    /\ UNCHANGED <<lockHolder, waiters, sent, resp, initLogins, reLogins>>

\* login() returns or raises, and "async with self._login_lock" is left.
\* After a raise _request ends; otherwise the request is sent without a
\* further suspension: lines 108-113 after the first login, lines 121-126
\* after the re-login.
LoginClose(r) ==
    /\ UNCHANGED <<pageVars, qs, record, expr>>
    /\ pc[r] \in {"close1", "close2"}
    /\ lockHolder = r
    /\ IF res[r] = "SWAPIAuthError"
       THEN /\ lockHolder' = LockExitOnError(lockHolder, waiters).holder
            /\ waiters' = LockExitOnError(lockHolder, waiters).waiters
            /\ pc' = [pc EXCEPT ![r] = "done"]
            /\ UNCHANGED sent
       ELSE /\ lockHolder' = Release(waiters).holder
            /\ waiters' = Release(waiters).waiters
            /\ IF pc[r] = "close1"
               THEN SendFirst(r)
               ELSE /\ pc' = [pc EXCEPT ![r] = "send2"]
                    /\ sent' = [sent EXCEPT ![r] =
                           Append(@, RetryHeaders(token, @[Len(@)]))]
    /\ UNCHANGED <<token, res, resp, initLogins, reLogins, tok1, tok2, sawLogin>>

\* lines 113-132: the first response arrives
RespFirst(r, status, body) ==
    /\ UNCHANGED <<pageVars, qs, record, expr>>
    /\ pc[r] = "send1"
    /\ resp' = [resp EXCEPT ![r] = Append(@, status)]
    /\ IF IsExpired(status)
       THEN /\ IF LockFree
               THEN /\ lockHolder' = r
                    /\ CallLogin2(r)
                    /\ UNCHANGED waiters
               ELSE /\ waiters' = Append(waiters, r)
                    /\ pc' = [pc EXCEPT ![r] = "wait2"]
                    /\ UNCHANGED <<lockHolder, reLogins>>
            /\ UNCHANGED res
       ELSE /\ pc' = [pc EXCEPT ![r] = "done"]
            /\ res' = [res EXCEPT ![r] = Finish(status, body)]
            /\ UNCHANGED <<lockHolder, waiters, reLogins>>
    /\ sawLogin' = [sawLogin EXCEPT ![r] = FALSE]
    /\ UNCHANGED <<token, sent, initLogins, tok1, tok2>>

\* lines 126-142: the response to the retried request arrives
RespRetry(r, status, body) ==
    /\ UNCHANGED <<pageVars, qs, record, expr>>
    /\ pc[r] = "send2"
    /\ resp' = [resp EXCEPT ![r] = Append(@, status)]
    /\ pc' = [pc EXCEPT ![r] = "done"]
    /\ res' = [res EXCEPT ![r] = Finish(status, body)]
    /\ UNCHANGED <<token, lockHolder, waiters, sent, initLogins, reLogins,
                   tok1, tok2, sawLogin>>

\* r leaves _request through an exception `how` raised at its suspension
\* point: it leaves the lock's queue, and the lock if it holds it
Unwind(r, how) ==
    /\ UNCHANGED <<pageVars, qs, record, expr>>
    /\ pc' = [pc EXCEPT ![r] = "done"]
    /\ res' = [res EXCEPT ![r] = how]
    /\ IF lockHolder = r
       THEN /\ lockHolder' = LockExitOnError(lockHolder, waiters).holder
            /\ waiters' = LockExitOnError(lockHolder, waiters).waiters
       ELSE /\ waiters' = Without(waiters, r)
            /\ UNCHANGED lockHolder
    /\ sawLogin' = [sawLogin EXCEPT ![r] = FALSE]
    /\ UNCHANGED <<token, sent, resp, initLogins, reLogins, tok1, tok2>>

\* the HTTP call r awaits raises (timeout=self.timeout, connection errors)
TransportError(r) ==
    /\ pc[r] \in {"login1", "login2", "send1", "send2"}
    /\ Unwind(r, "TransportError")

\* the task running r is cancelled while it is suspended
Cancel(r) ==
    /\ pc[r] \in {"wait1", "wait2", "login1", "login2", "close1", "close2",
                  "send1", "send2"}
    /\ Unwind(r, "CancelledError")

\* the steps of r that need no outside decision: a woken waiter resumes,
\* and an HTTP call ends with a response or an exception (at the latest by
\* timeout=self.timeout)
Progress(r) ==
    \/ Enter1(r)
    \/ Enter2(r)
    \/ \E status \in Statuses, tok \in {NoTok, TokenOf(r, pc[r])} : LoginResp(r, status, tok)
    \/ LoginClose(r)
    \/ \E status \in Statuses, body \in Bodies : RespFirst(r, status, body)
    \/ \E status \in Statuses, body \in Bodies : RespRetry(r, status, body)
    \/ TransportError(r)

Next ==
    \E r \in Req :
        \/ Start(r)
        \/ Progress(r)
        \/ Cancel(r)

Init == AuthInit /\ PageIdle /\ QsIdle /\ RecIdle /\ ExprIdle

Spec == Init /\ [][Next]_vars

\* the event loop keeps running what is ready, and every HTTP call ends
FairSpec == Spec /\ WF_vars(\E r \in Req : Progress(r))

\* Python's None where the other values are numbers
None == -1

\* a dict: a function from its keys
EmptyDict == [k \in {} |-> None]

\* d[k] = v
PutIfAbsent(d, k, v) ==
    [x \in DOMAIN d \cup {k} |-> IF x \in DOMAIN d THEN d[x] ELSE v]

Put(d, k, v) == [x \in DOMAIN d \cup {k} |-> IF x = k THEN v ELSE d[x]]

(***************************************************************************)
(* The fetch-all traversals.  Only the number of items of a page matters   *)
(* to them, so a page is its length.                                       *)
(***************************************************************************)
\* the largest number of full pages the well-behaved server holds
MaxFullPages == 2
\* page fetches after which the model stops following a traversal: more
\* than any traversal against the well-behaved server needs
FetchCap == MaxFullPages + 3

\* "limit = 100" of get_all_pages, and the default of all(limit=...) and of
\* get_all_pages(page_size=...)
DefaultLimit == 100
\* the page sizes a caller asks for
Limits == {2, DefaultLimit}

\* a response whose meta has no "total" / no "totalPages"
NoMeta == -1
\* a reported total no traversal of the model reaches
BigTotal == (FetchCap + 1) * DefaultLimit

Algos == {"all", "get_all_pages", "old_get_all_pages"}
Servers == {"well", "empty", "rogue"}

\* the value of a paging argument the caller passes in
GivenValue == 3

\* What the caller passes in besides the page size:
\*   all(**kwargs): nothing, offset=..., or page=...;
\*   get_all_pages(query_builder=...) of old_client.py: a fresh
\*   SWQueryBuilder, or one on which page_offset(...) was called;
\*   get_all_pages of client.py: a fresh builder.
Givens(a) ==
    CASE a = "all" ->
           {EmptyDict, Put(EmptyDict, "offset", GivenValue),
            Put(EmptyDict, "page", GivenValue)}
      [] a = "old_get_all_pages" ->
           {EmptyDict, Put(EmptyDict, "page[offset]", GivenValue)}
      [] OTHER -> {EmptyDict}

Min(a, b) == IF a <= b THEN a ELSE b
Max(a, b) == IF a >= b THEN a ELSE b
\* ceil(a / b)
Ceil(a, b) == (a + b - 1) \div b

\* the offset of the first item of the page asked for: page[number] counts
\* pages of `lim` items from 1, page[offset] counts items from 0
OffsetOf(a, cur, lim) == IF a = "get_all_pages" THEN cur ELSE (cur - 1) * lim

\* The pages the server may answer with: [len, total, totalPages].
\*   well:  the slice asked for, and accurate totals;
\*   empty: no items and no totals;
\*   rogue: a page that is empty, short or full, and any totals.
Pages ==
    CASE srv = "well" ->
           {[len |-> Min(limit, Max(0, srvTotal - OffsetOf(algo, cursor, limit))),
             total |-> srvTotal,
             totalPages |-> Ceil(srvTotal, limit)]}
      [] srv = "empty" ->
           {[len |-> 0, total |-> NoMeta, totalPages |-> NoMeta]}
      [] OTHER ->
           [len : {0, 1, limit},
            total : {NoMeta, nItems + 1, BigTotal},
            totalPages : {NoMeta, BigTotal}]

PageInit ==
    \E a \in Algos, s \in Servers :
    \E l \in (IF a = "get_all_pages" THEN {DefaultLimit} ELSE Limits) :
    \E t \in (IF s = "well"
              THEN {q * l + e : q \in 0..MaxFullPages, e \in {0, 1}}
              ELSE {0}) :
    \E g \in Givens(a) :
        trav = [algo |-> a, srv |-> s, limit |-> l, srvTotal |-> t,
                given |-> g,
                cursor |-> IF a = "get_all_pages" THEN 0 ELSE 1,
                nItems |-> 0, fetches |-> 0, request |-> EmptyDict,
                lastLen |-> 0, lastTotal |-> NoMeta, pcT |-> "loop"]

TotalOrBig(t) == IF t = NoMeta THEN BigTotal ELSE t

\* "total = meta.get('total', 0)"
TotalOrZero(t) == IF t = NoMeta THEN 0 ELSE t

\* "total_pages = meta.get('totalPages', 1)"
PagesOrOne(t) == IF t = NoMeta THEN 1 ELSE t

\* build_params for the paging arguments of list(page=, limit=, **kwargs)
ListParams(page, lim, kwargs) ==
    LET p1 == Put(EmptyDict, "page[limit]", lim)
        p2 == Put(p1, "page[number]", page)
    IN  IF "offset" \in DOMAIN kwargs
        THEN Put(p2, "page[offset]", kwargs["offset"])
        ELSE p2

\* self.params of a SWQueryBuilder after a further setter stored v under k
BuilderSet(builder, k, v) == Put(builder, k, v)

\* a page is fetched with the query parameters req and answered with pg:
\* the traversal then holds n items, is at cursor c and goes on or is done
Fetched(req, pg, n, c, state) ==
    /\ pcT = "loop"
    /\ fetches < FetchCap
    /\ trav' = [trav EXCEPT !.request = req, !.fetches = @ + 1,
                            !.lastLen = pg.len, !.lastTotal = pg.total,
                            !.nItems = n, !.cursor = c, !.pcT = state]
    /\ UNCHANGED <<authVars, qs, record, expr>>

\* list(page=page, limit=limit, **kwargs) with a page among the kwargs:
\* the call itself raises TypeError (two values for one keyword)
ListRaises ==
    /\ pcT = "loop"
    /\ trav' = [trav EXCEPT !.pcT = "TypeError"]
    /\ UNCHANGED <<authVars, qs, record, expr>>

\* one iteration of the loop of SyncResource.all / AsyncResource.all
AllStep ==
    /\ algo = "all"
    /\ IF "page" \in DOMAIN given
       THEN ListRaises
       ELSE \E pg \in Pages :
              LET n == nItems + pg.len
                  stop == pg.len = 0 \/ n >= TotalOrZero(pg.total)
              IN  Fetched(ListParams(cursor, limit, given), pg, n,
                          IF stop THEN cursor ELSE cursor + 1,
                          IF stop THEN "done" ELSE "loop")

\* one iteration of the loop of SWApiClient.get_all_pages (client.py)
GetAllPagesStep ==
    \E pg \in Pages :
        LET req == BuilderSet(BuilderSet(given, "page[limit]", limit),
                              "page[offset]", cursor)
            stop == pg.len = 0 \/ pg.len < limit
        IN  /\ algo = "get_all_pages"
            /\ Fetched(req, pg,
                       IF pg.len = 0 THEN nItems ELSE nItems + pg.len,
                       IF stop THEN cursor ELSE cursor + limit,
                       IF stop THEN "done" ELSE "loop")

\* one iteration of the loop of SWApiClient.get_all_pages (old_client.py)
OldGetAllPagesStep ==
    \E pg \in Pages :
        LET req == BuilderSet(BuilderSet(given, "page[number]", cursor),
                              "page[limit]", limit)
            stop == pg.len = 0 \/ cursor >= PagesOrOne(pg.totalPages)
        IN  /\ algo = "old_get_all_pages"
            /\ Fetched(req, pg,
                       IF pg.len = 0 THEN nItems ELSE nItems + pg.len,
                       IF stop THEN cursor ELSE cursor + 1,
                       IF stop THEN "done" ELSE "loop")

PageNext ==
    \/ AllStep
    \/ GetAllPagesStep
    \/ OldGetAllPagesStep

PageSpecInit == AuthInit /\ PageInit /\ QsIdle /\ RecIdle /\ ExprIdle

PageSpec == PageSpecInit /\ [][PageNext]_vars

(***************************************************************************)
(* SWAPIQuerySet (v2/queryset.py): the builder state, get() and count().   *)
(* A text is the sequence of its characters, so that the substring test    *)
(* of get() is computed on the message _request builds.                    *)
(***************************************************************************)
Digits == <<"0", "1", "2", "3", "4", "5", "6", "7", "8", "9">>

\* str(n) of an int n >= 0
RECURSIVE Str(_)
Str(n) ==
    IF n < 10 THEN <<Digits[n + 1]>>
    ELSE Str(n \div 10) \o <<Digits[(n % 10) + 1]>>

\* ",".join(names)
RECURSIVE Join(_)
Join(names) ==
    IF names = <<>> THEN <<>>
    ELSE IF Len(names) = 1 THEN <<names[1]>>
    ELSE <<names[1], ",">> \o Join(Tail(names))

\* pat in text
In(pat, text) ==
    \E i \in 0..(Len(text) - Len(pat)) : SubSeq(text, i + 1, i + Len(pat)) = pat

\* self.base_url of the client and self.endpoint of the queryset
base_url == <<"h", "t", "t", "p", ":", "/", "/", "h">>
endpoint == <<"/", "a", "p", "i", "/", "c">>

\* the ids get() is called with, as str(id)
Ids == {<<"7">>, <<"4", "0", "4">>, <<"1", "4", "0", "4", "0">>}
\* error statuses a request may end with
ErrorStatuses == {403, 404, 500}
\* resp.text of a response that is an error or is not JSON
Texts == {<<>>, <<"n", "o">>, <<"4", "0", "4", "!">>}

\* How a call of client.get / post / patch / delete ends (v2/client.py):
\*   "return"    _request returns the decoded body
\*   "status"    the last response has a status >= 400 (line 129)
\*   "json"      the body of a successful response is not JSON (line 139)
\*   "login"     login() got a status >= 400 (line 63)
\*   "token"     the login response has no token (line 70)
\*   "transport" httpx raises (timeout, connection error)
Outcomes ==
    {[via |-> "return", status |-> 200, text |-> <<>>]}
    \cup {[via |-> "status", status |-> s, text |-> t] :
             s \in ErrorStatuses, t \in Texts}
    \cup {[via |-> "json", status |-> 200, text |-> t] : t \in Texts \ {<<>>}}
    \cup {[via |-> "login", status |-> s, text |-> t] :
             s \in ErrorStatuses, t \in Texts}
    \cup {[via |-> "token", status |-> 200, text |-> <<>>]}
    \cup {[via |-> "transport", status |-> 0, text |-> <<>>]}

\* the literal texts of the messages of v2/client.py
HttpErrorText ==
    <<"S", "W", "A", "P", "I", " ", "H", "T", "T", "P", " ">>

InvalidJsonText ==
    <<"I", "n", "v", "a", "l", "i", "d", " ", "J", "S", "O", "N", " ",
      "r", "e", "s", "p", "o", "n", "s", "e", " ", "f", "r", "o", "m",
      " ", "S", "W", "A", "P", "I", ":", " ">>

LoginFailedText ==
    <<"L", "o", "g", "i", "n", " ", "f", "a", "i", "l", "e", "d", " ",
      "(">>

MissingTokenText ==
    <<"L", "o", "g", "i", "n", " ", "r", "e", "s", "p", "o", "n", "s",
      "e", " ", "m", "i", "s", "s", "i", "n", "g", " ", "'", "t", "o",
      "k", "e", "n", "'", " ", "f", "i", "e", "l", "d">>

\* the exception a call that does not return raises: its class and str(e)
Raised(out, method, url) ==
    CASE out.via = "status" ->
            [type |-> "SWAPIError",
             msg |-> HttpErrorText \o Str(out.status) \o <<" ", "o", "n", " ">>
                     \o method \o <<" ">> \o url \o <<":", " ">> \o out.text]
      [] out.via = "json" ->
            [type |-> "SWAPIError", msg |-> InvalidJsonText \o out.text]
      [] out.via = "login" ->
            [type |-> "SWAPIAuthError",
             msg |-> LoginFailedText \o Str(out.status) \o <<")", ":", " ">>
                     \o out.text]
      [] out.via = "token" ->
            [type |-> "SWAPIAuthError", msg |-> MissingTokenText]
      [] OTHER -> [type |-> "TransportError", msg |-> <<>>]

\* except SWAPIError: the class and its subclasses (v2/exceptions.py)
IsSWAPIError(type) == type \in {"SWAPIError", "SWAPIAuthError"}

\* a fresh SWAPIQuerySet; an unset list is <<>>, falsy as None is
FreshQuerySet ==
    [with_relations |-> FALSE, lang |-> "pl", fields |-> <<>>,
     filters |-> <<>>,
     page_limit |-> None, page_offset |-> None, page_number |-> None]

FieldLists == {<<"a", "b">>}
PageLimits == {1, 20}
PageOffsets == {20}
PageNumbers == {2}

\* the operation op was executed: it left the builder state q, made the
\* client.get calls gets and returned or raised result
Executed(q, op, gets, result) ==
    /\ qs' = [queryset |-> q, op |-> op, gets |-> gets, res |-> result]
    /\ UNCHANGED <<authVars, pageVars, record, expr>>

\* a setter stored its argument and returned self
Set(q, op) == Executed(q, op, <<>>, [kind |-> "self", value |-> 0])

\* the setters used here
with_relations(value) ==
    Set([queryset EXCEPT !.with_relations = value], "with_relations")

Fields(names) == Set([queryset EXCEPT !.fields = names], "fields")

page_limit(n) == Set([queryset EXCEPT !.page_limit = n], "page_limit")

page_offset(n) == Set([queryset EXCEPT !.page_offset = n], "page_offset")

page_number(n) == Set([queryset EXCEPT !.page_number = n], "page_number")

Setter ==
    \/ \E value \in BOOLEAN : with_relations(value)
    \/ \E names \in FieldLists : Fields(names)
    \/ \E n \in PageLimits : page_limit(n)
    \/ \E n \in PageOffsets : page_offset(n)
    \/ \E n \in PageNumbers : page_number(n)

WithIf(d, cond, k, v) == IF cond THEN Put(d, k, v) ELSE d

\* d1.update(d2)
Merge(d1, d2) ==
    [x \in DOMAIN d1 \cup DOMAIN d2 |->
        IF x \in DOMAIN d2 THEN d2[x] ELSE d1[x]]

\* "for f in self._filters: params.update(f)"
RECURSIVE UpdateAll(_, _)
UpdateAll(params, dicts) ==
    IF dicts = <<>> THEN params
    ELSE UpdateAll(Merge(params, dicts[1]), Tail(dicts))

\* _build_params for the state modelled (no ordering, no for_)
_build_params(q) ==
    LET p1 == Put(EmptyDict, "setting[with_relations]",
                  IF q.with_relations THEN "true" ELSE "false")
        p2 == Put(p1, "setting[lang]", q.lang)
        p3 == UpdateAll(WithIf(p2, q.fields # <<>>, "fields", Join(q.fields)),
                        q.filters)
        p4 == WithIf(p3, q.page_limit # None, "page[limit]", q.page_limit)
        p5 == WithIf(p4, q.page_offset # None, "page[offset]", q.page_offset)
    IN  WithIf(p5, q.page_number # None, "page[number]", q.page_number)

\* the params of get(): an empty dict is sent as None
GetParams(q) ==
    LET p1 == WithIf(EmptyDict, q.fields # <<>>, "fields", Join(q.fields))
    IN  WithIf(p1, q.with_relations, "setting[with_relations]", "true")

\* "404" in str(e)
NotFoundTestReason(msg) == In(<<"N", "o", "t", " ", "F", "o", "u", "n", "d">>, msg)

NotFoundTest(msg) == In(<<"4", "0", "4">>, msg)

\* what get() raises when client.get raised e
GetRaises(e) ==
    IF IsSWAPIError(e.type) /\ NotFoundTest(e.msg) THEN "SWAPINotFoundError"
    ELSE e.type

\* get(id)
Get(id, out) ==
    LET path == endpoint \o <<"/">> \o id
    IN  Executed(queryset, "get",
                 <<[path |-> path, params |-> GetParams(queryset),
                    out |-> out]>>,
                 IF out.via = "return" THEN [kind |-> "model", value |-> 0]
                 ELSE [kind |-> GetRaises(Raised(out, <<"G", "E", "T">>, base_url \o path)),
                       value |-> 0])

\* a response of the list endpoint carries at most MaxData items
MaxData == 2

\* Python's "a or b" on numbers and None
Or(a, b) == IF a # None /\ a # 0 THEN a ELSE b

\* lines 498-507: the number count() returns for a decoded response
\* with meta.page.total_count = tc, meta.page.total = t and n items in data
CountOf(tc, t, n) == IF Or(tc, t) # None THEN Or(tc, t) ELSE n

Totals == {None, 0, 3}

\* count()
Count(out, tc, t, n) ==
    LET p1 == Put(_build_params(queryset), "page[limit]", 1)
        params == Put(p1, "page[offset]", 0)
    IN  /\ out.via # "return" => tc = None /\ t = None /\ n = 0
        /\ Executed(queryset, "count",
                    <<[path |-> endpoint, params |-> params, out |-> out,
                       total_count |-> tc, total |-> t, data |-> n]>>,
                    IF out.via = "return"
                    THEN [kind |-> "int", value |-> CountOf(tc, t, n)]
                    ELSE [kind |-> Raised(out, <<"G", "E", "T">>, base_url \o endpoint).type,
                          value |-> 0])

QsFresh ==
    qs = [queryset |-> FreshQuerySet, op |-> "none", gets |-> <<>>,
          res |-> [kind |-> "none", value |-> 0]]

QsInit == AuthInit /\ PageIdle /\ RecIdle /\ ExprIdle /\ QsFresh

QsGet == \E id \in Ids, out \in Outcomes : Get(id, out)

QsCount ==
    \E out \in Outcomes, tc \in Totals, t \in Totals, n \in 0..MaxData :
        Count(out, tc, t, n)

QsNext == Setter \/ QsGet \/ QsCount

QsSpec == QsInit /\ [][QsNext]_vars

(***************************************************************************)
(* The list operations of SWAPIQuerySet: all(), first(), exists().         *)
(***************************************************************************)
\* the request of _fetch_raw for the builder state q, answered with out
\* and, when it returns, n items in data
ListGet(q, out, n) ==
    [path |-> endpoint, params |-> _build_params(q), out |-> out, data |-> n]

\* what the operation raises when client.get does not return
ListRaised(out) ==
    [kind |-> Raised(out, <<"G", "E", "T">>, base_url \o endpoint).type,
     value |-> 0]

\* all(): a SWAPIListResponse of the n items
All(out, n) ==
    /\ out.via # "return" => n = 0
    /\ Executed(queryset, "all", <<ListGet(queryset, out, n)>>,
                IF out.via = "return" THEN [kind |-> "list", value |-> n]
                ELSE ListRaised(out))

\* "qs = self.page_limit(1)": page_limit stores the limit in self and
\* returns self
LimitedToOne(q) == [q EXCEPT !.page_limit = 1]

FirstOnClone(out, n) ==
    /\ out.via # "return" => n = 0
    /\ Executed(queryset, "first",
                <<ListGet(LimitedToOne(queryset), out, n)>>,
                IF out.via # "return" THEN ListRaised(out)
                ELSE IF n > 0 THEN [kind |-> "model", value |-> 0]
                ELSE [kind |-> "None", value |-> 0])

\* first(): the first item of all() on the limited queryset, or None
First(out, n) ==
    /\ out.via # "return" => n = 0
    /\ Executed(LimitedToOne(queryset), "first",
                <<ListGet(LimitedToOne(queryset), out, n)>>,
                IF out.via # "return" THEN ListRaised(out)
                ELSE IF n > 0 THEN [kind |-> "model", value |-> 0]
                ELSE [kind |-> "None", value |-> 0])

\* exists(): first() is not None
Exists(out, n) ==
    /\ out.via # "return" => n = 0
    /\ Executed(LimitedToOne(queryset), "exists",
                <<ListGet(LimitedToOne(queryset), out, n)>>,
                IF out.via # "return" THEN ListRaised(out)
                ELSE [kind |-> "bool", value |-> IF n > 0 THEN 1 ELSE 0])

\* the page limits the caller of the list operations sets
ListLimits == {20}

ListSetter ==
    \/ \E value \in BOOLEAN : with_relations(value)
    \/ \E n \in ListLimits : page_limit(n)

QsAll == \E out \in Outcomes, n \in 0..MaxData : All(out, n)

QsFirst == \E out \in Outcomes, n \in 0..MaxData : First(out, n)

QsExists == \E out \in Outcomes, n \in 0..MaxData : Exists(out, n)

ListNext == ListSetter \/ QsAll \/ QsFirst \/ QsExists

ListSpec == QsInit /\ [][ListNext]_vars

(***************************************************************************)
(* APIModel (v2/models/base.py) and Commission (v2/models/commission.py):  *)
(* one record, used by one task.  A dict is a function from its keys.      *)
(* A field value is None, a scalar, a JSON object as a plain dict ("obj")  *)
(* or that object wrapped in a DynamicObject ("dyn").  DynamicObject       *)
(* defines no __eq__: a wrapper equals only itself, and the one wrapper    *)
(* a caller can read from the record is the one the record holds.          *)
(***************************************************************************)
Classes == {"APIModel", "Commission"}

\* pk_field
pk_field == "id"

\* the fields of the record, and the values the server sends and the
\* caller assigns, per field
Loaded == {"id", "name"}

ValuesOf(key) == IF key = "id" THEN {"7"} ELSE {"A", "B", "obj"}

\* every dict the server may send as the data of a record
Dicts(keys) ==
    UNION {{d \in [ks -> UNION {ValuesOf(k) : k \in ks}] :
               \A k \in ks : d[k] \in ValuesOf(k)} : ks \in SUBSET keys}

\* every "data" a POST or PATCH of a record may be answered with: the
\* body of a Commission may carry its attributes[] array
RecordBodies(c) ==
    Dicts(Loaded) \cup
    (IF c = "Commission"
     THEN {Put(d, "attributes", "list") : d \in Dicts(Loaded)} ELSE {})

\* the attribute ids of a Commission the model uses, and an id it never has
AttrIds == {"10"}
NoSuchAttr == "11"
AttrValues == {"A", "B"}
\* every attributes[] array, as attribute id -> value
AttrDicts == UNION {[ids -> AttrValues] : ids \in SUBSET AttrIds}

\* how a client call ends for the record: it returns the decoded body, or
\* raises SWAPIError (SWAPIAuthError is one) or a transport error of httpx
CallEnds == {"return", "SWAPIError", "TransportError"}

_wrap_dynamic(value) == IF value = "obj" THEN "dyn" ELSE value

\* _serialize of _as_payload: to_dict() of a DynamicObject
_serialize(value) == IF value = "dyn" THEN "obj" ELSE value

\* the pk property: getattr(self, self.pk_field, None)
PkOf(f) == IF pk_field \in DOMAIN f THEN f[pk_field] ELSE "None"

pk == PkOf(fields)

\* the public entries of self.__dict__: the fields and, on a Commission,
\* the attributes accessor
PublicDict ==
    IF cls = "Commission" THEN Put(fields, "attributes", attributes) ELSE fields

\* _as_payload(full=True)
_as_payload == [k \in DOMAIN PublicDict |-> _serialize(PublicDict[k])]

\* the last operation: its name and, for an assignment, its arguments
Op(name) == [name |-> name, key |-> "", value |-> ""]
Assign(name, key, value) == [name |-> name, key |-> key, value |-> value]

\* a request, how the client call that made it ended and, when it returned,
\* the record and the attributes[] of the body ({} when the body has none)
Call(request, end, data, attrs) ==
    [method |-> request.method, pk |-> request.pk, kind |-> request.kind,
     body |-> request.body, end |-> end, data |-> data, attrs |-> attrs]

\* the condition of line 74 under which __setattr__ records the field
IsChangeAlways(key, value) == key \in DOMAIN original

IsChangeAnyKey(key, value) ==
    key \notin DOMAIN original \/ original[key] # value

IsChange(key, value) == key \in DOMAIN original /\ original[key] # value

\* the operation op ran: it left the instance self, made the client calls
\* calls and ended with result
Ran(self, op, calls, result) ==
    /\ record' = [self EXCEPT !.op = op, !.calls = calls, !.res = result]
    /\ UNCHANGED <<authVars, pageVars, qs, expr>>

\* __setattr__(key, value) after __init__
__setattr__(key, value) ==
    Ran([record EXCEPT
            !.fields = Put(fields, key, value),
            !.dirty = IF IsChange(key, value) THEN Put(dirty, key, value)
                      ELSE dirty],
        Assign("setattr", key, value), <<>>, "None")

\* what self.attributes is after _reload_from_data(data): line 178 rebinds
\* every key of data, the name "attributes" included ("list": the
\* DynamicList wrapping the attributes[] array)
ReloadedAttributes(data) ==
    IF "attributes" \in DOMAIN data THEN data["attributes"] ELSE attributes

\* the instance after _reload_from_data(data)
_reload_from_data(data) ==
    LET wrapped == [k \in DOMAIN data |-> _wrap_dynamic(data[k])]
        loaded == DOMAIN data \ {"attributes"}
    IN  [record EXCEPT
            !.original = wrapped,
            !.dirty = EmptyDict,
            !.fields = [k \in DOMAIN fields \cup loaded |->
                           IF k \in loaded THEN wrapped[k] ELSE fields[k]],
            !.attributes = ReloadedAttributes(data)]

\* the request save() makes: a POST of the whole record without a primary
\* key, else a PATCH of self._dirty
SaveRequest ==
    IF pk = "None"
    THEN [method |-> "POST", pk |-> "None", kind |-> "data", body |-> _as_payload]
    ELSE [method |-> "PATCH", pk |-> pk, kind |-> "data", body |-> dirty]

\* line 128: a record with a primary key and nothing dirty is not sent
NothingToSaveNever == FALSE

NothingToSave == pk # "None" /\ dirty = EmptyDict

SaveClearsDirtyFirst(end, data) ==
    IF NothingToSave
    THEN /\ end = "return" /\ data = EmptyDict
         /\ Ran(record, Op("save"), <<>>, "self")
    ELSE IF end = "return"
    THEN Ran(_reload_from_data(data), Op("save"),
             <<Call(SaveRequest, end, data, EmptyDict)>>, "self")
    ELSE /\ data = EmptyDict
         /\ Ran([record EXCEPT !.dirty = EmptyDict], Op("save"),
                <<Call(SaveRequest, end, data, EmptyDict)>>, end)

\* save(); end and data: how the client call ends and the "data" of the
\* body it returns
save(end, data) ==
    IF NothingToSave
    THEN /\ end = "return" /\ data = EmptyDict
         /\ Ran(record, Op("save"), <<>>, "self")
    ELSE IF end = "return"
    THEN Ran(_reload_from_data(data), Op("save"),
             <<Call(SaveRequest, end, data, EmptyDict)>>, "self")
    ELSE /\ data = EmptyDict
         /\ Ran(record, Op("save"),
                <<Call(SaveRequest, end, data, EmptyDict)>>, end)

\* line 141: delete() refuses a record without a primary key
CannotDeleteNever == FALSE

CannotDelete == pk = "None"

\* delete(); "deleted" is no attribute of the instance: it remembers that
\* a delete() has succeeded
delete(end) ==
    IF CannotDelete
    THEN /\ end = "return"
         /\ Ran(record, Op("delete"), <<>>, "SWAPIError")
    ELSE Ran([record EXCEPT !.deleted = @ \/ end = "return"], Op("delete"),
             <<Call([method |-> "DELETE", pk |-> pk, kind |-> "none",
                     body |-> EmptyDict], end, EmptyDict, EmptyDict)>>,
             IF end = "return" THEN "None" ELSE end)

\* commission.attributes.set(attr_id, value)
attributes_set(attr_id, value) ==
    /\ cls = "Commission"
    /\ IF attributes # "proxy"
       THEN Ran(record, Assign("attributes.set", attr_id, value), <<>>,
                "AttributeError")
       ELSE IF attr_id \notin DOMAIN attributesById
       THEN Ran(record, Assign("attributes.set", attr_id, value), <<>>,
                "KeyError")
       ELSE Ran([record EXCEPT
                    !.attributesById = Put(@, attr_id, value),
                    !.attributesDirty = Put(@, attr_id, value)],
                Assign("attributes.set", attr_id, value), <<>>, "None")

\* save_attributes(); newAttrs: the attributes[] of the body returned
save_attributes(end, newAttrs) ==
    LET call == Call([method |-> "PATCH", pk |-> pk, kind |-> "attributes",
                      body |-> attributesDirty], end, EmptyDict, newAttrs)
    IN  /\ cls = "Commission"
        /\ IF pk = "None"
           THEN /\ end = "return" /\ newAttrs = EmptyDict
                /\ Ran(record, Op("save_attributes"), <<>>, "SWAPIError")
           ELSE IF attributesDirty = EmptyDict
           THEN /\ end = "return" /\ newAttrs = EmptyDict
                /\ Ran(record, Op("save_attributes"), <<>>, "None")
           ELSE IF end = "return"
           THEN Ran([record EXCEPT !.attributesById = newAttrs,
                                   !.attributesDirty = EmptyDict],
                    Op("save_attributes"), <<call>>, "None")
           ELSE /\ newAttrs = EmptyDict
                /\ Ran(record, Op("save_attributes"), <<call>>, end)

\* the instance APIModel(data) / Commission(data) constructs; attrs: the
\* attributes[] of data
New(c, data, attrs) ==
    [cls |-> c,
     fields |-> [k \in DOMAIN data |-> _wrap_dynamic(data[k])],
     original |-> data,
     dirty |-> EmptyDict,
     attributes |-> IF c = "Commission" THEN "proxy" ELSE "none",
     attributesById |-> attrs,
     attributesDirty |-> EmptyDict,
     op |-> Op("init"), calls |-> <<>>, res |-> "None", deleted |-> FALSE]

\* a record constructed from data as the server sends it
RecInit ==
    /\ AuthInit /\ PageIdle /\ QsIdle /\ ExprIdle
    /\ \E c \in Classes, data \in Dicts(Loaded), attrs \in AttrDicts :
          /\ c = "APIModel" => attrs = EmptyDict
          /\ record = New(c, data, attrs)

\* the caller assigns a value of its own or one it read from the record
RecSetAttr ==
    \E key \in Loaded :
        \E value \in ValuesOf(key) \cup
                     (IF key \in DOMAIN fields THEN {fields[key]} ELSE {}) :
            __setattr__(key, value)

RecSave ==
    \E end \in CallEnds, data \in RecordBodies(cls) : save(end, data)

RecDelete == \E end \in CallEnds : delete(end)

RecAttributesSet ==
    \E attr_id \in AttrIds \cup {NoSuchAttr}, value \in AttrValues :
        attributes_set(attr_id, value)

RecSaveAttributes ==
    \E end \in CallEnds, newAttrs \in AttrDicts : save_attributes(end, newAttrs)

RecNext ==
    \/ RecSetAttr
    \/ RecSave
    \/ RecDelete
    \/ RecAttributesSet
    \/ RecSaveAttributes

RecSpec == RecInit /\ [][RecNext]_vars

(***************************************************************************)
(* build_params (_params.py): the compiler from keyword arguments to wire  *)
(* parameters.  Keys and values of the wire are texts; a Python value is   *)
(* a record of its type and content, and str() is computed from it.        *)
(***************************************************************************)
\* Python values: an int >= 0, a str, a bool, a list or a tuple of ints
PyInt(n) == [type |-> "int", n |-> n, b |-> FALSE, s |-> <<>>, items |-> <<>>]
PyText(s) == [type |-> "str", n |-> 0, b |-> FALSE, s |-> s, items |-> <<>>]
PyBool(b) == [type |-> "bool", n |-> 0, b |-> b, s |-> <<>>, items |-> <<>>]
PyList(items) ==
    [type |-> "list", n |-> 0, b |-> FALSE, s |-> <<>>, items |-> items]
PyTuple(items) ==
    [type |-> "tuple", n |-> 0, b |-> FALSE, s |-> <<>>, items |-> items]

\* sep.join(texts)
RECURSIVE JoinTexts(_, _)
JoinTexts(sep, texts) ==
    IF texts = <<>> THEN <<>>
    ELSE IF Len(texts) = 1 THEN texts[1]
    ELSE texts[1] \o sep \o JoinTexts(sep, Tail(texts))

\* [str(v) for v in items] for ints
StrEach(items) == [i \in 1..Len(items) |-> Str(items[i])]

\* str(value)
PyStr(value) ==
    CASE value.type = "int" -> Str(value.n)
      [] value.type = "str" -> value.s
      [] value.type = "bool" ->
            IF value.b THEN <<"T", "r", "u", "e">> ELSE <<"F", "a", "l", "s",
                "e">>
      [] value.type = "list" ->
            <<"[">> \o JoinTexts(<<",", " ">>, StrEach(value.items))
                \o <<"]">>
      [] OTHER ->
            <<"(">> \o JoinTexts(<<",", " ">>, StrEach(value.items))
            \o (IF Len(value.items) = 1 THEN <<",">> ELSE <<>>) \o <<")">>

Upper ==
    <<"A", "B", "C", "D", "E", "F", "G", "H", "I", "J", "K", "L",
      "M", "N", "O", "P", "Q", "R", "S", "T", "U", "V", "W", "X", "Y",
      "Z">>
Lowered ==
    <<"a", "b", "c", "d", "e", "f", "g", "h", "i", "j", "k", "l",
      "m", "n", "o", "p", "q", "r", "s", "t", "u", "v", "w", "x", "y",
      "z">>

\* text.lower()
Lower(text) ==
    [i \in 1..Len(text) |->
        IF \E j \in 1..Len(Upper) : Upper[j] = text[i]
        THEN Lowered[CHOOSE j \in 1..Len(Upper) : Upper[j] = text[i]]
        ELSE text[i]]

\* text.find(sep): the first position at which sep occurs, 0 if none
Find(text, sep) ==
    IF In(sep, text)
    THEN CHOOSE i \in 1..(Len(text) - Len(sep) + 1) :
            /\ SubSeq(text, i, i + Len(sep) - 1) = sep
            /\ \A j \in 1..(i - 1) : SubSeq(text, j, j + Len(sep) - 1) # sep
    ELSE 0

\* text.rfind(sep): the last position at which sep occurs, 0 if none
RFind(text, sep) ==
    IF In(sep, text)
    THEN CHOOSE i \in 1..(Len(text) - Len(sep) + 1) :
            /\ SubSeq(text, i, i + Len(sep) - 1) = sep
            /\ \A j \in (i + 1)..(Len(text) - Len(sep) + 1) :
                   SubSeq(text, j, j + Len(sep) - 1) # sep
    ELSE 0

\* text.split(sep)
RECURSIVE Split(_, _)
Split(text, sep) ==
    IF Find(text, sep) = 0 THEN <<text>>
    ELSE <<SubSeq(text, 1, Find(text, sep) - 1)>>
         \o Split(SubSeq(text, Find(text, sep) + Len(sep), Len(text)), sep)

\* text.rsplit(sep, 1) of a text in which sep occurs
RSplit1(text, sep) ==
    <<SubSeq(text, 1, RFind(text, sep) - 1),
      SubSeq(text, RFind(text, sep) + Len(sep), Len(text))>>

\* p.isdigit() for ASCII texts
isdigit(p) ==
    /\ p # <<>>
    /\ \A i \in 1..Len(p) : \E d \in 1..Len(Digits) : Digits[d] = p[i]

DoubleUnderscore == <<"_", "_">>

\* lines 21-24: the field and operator of a key
SplitKey(key) ==
    IF In(DoubleUnderscore, key) THEN RSplit1(key, DoubleUnderscore)
    ELSE <<key, <<"e", "q">>>>

\* lines 26-27: the field is split into one bracket per segment
HasNumericSegmentAlways(parts) == Len(parts) > 1

HasNumericSegment(parts) ==
    Len(parts) > 1 /\ \E i \in 1..Len(parts) : isdigit(parts[i])

\* _parse_filter_key: the segments that get a bracket pair each, and the
\* operator
_parse_filter_key(key) ==
    LET field == SplitKey(key)[1]
        parts == Split(field, <<".">>)
    IN  [field |-> IF HasNumericSegment(parts) THEN parts ELSE <<field>>,
         op |-> SplitKey(key)[2]]

\* "[p]" for every p of parts, concatenated
RECURSIVE Brackets(_)
Brackets(parts) ==
    IF parts = <<>> THEN <<>>
    ELSE <<"[">> \o parts[1] \o <<"]">> \o Brackets(Tail(parts))

\* _filter_key
_filter_key(prefix, field, op) == prefix \o Brackets(field)
    \o Brackets(<<op>>)

\* "isinstance(value, list)" at line 44
IsSequence(value) == value.type = "list"

NullOps == {<<"i", "s", "N", "u", "l", "l">>, <<"i", "s", "N", "o", "t", "N",
    "u", "l", "l">>}

\* _filter_value
_filter_value(value, op) ==
    IF op \in NullOps THEN <<>>
    ELSE IF IsSequence(value) THEN JoinTexts(<<",">>, StrEach(value.items))
    ELSE PyStr(value)

\* lines 72-74, 79-81, 86-88: the entries of one dict, in its order
RECURSIVE CompileEntries(_, _, _)
CompileEntries(params, prefix, entries) ==
    IF entries = <<>> THEN params
    ELSE LET parsed == _parse_filter_key(entries[1].key)
         IN  CompileEntries(
                 Put(params, _filter_key(prefix, parsed.field, parsed.op),
                     _filter_value(entries[1].value, parsed.op)),
                 prefix, Tail(entries))

\* lines 78-81, 85-88: the groups of filter_or / filter_and from index idx
RECURSIVE CompileGroups(_, _, _, _)
CompileGroups(params, name, groups, idx) ==
    IF groups = <<>> THEN params
    ELSE CompileGroups(
             CompileEntries(params, name \o <<"[">> \o Str(idx) \o <<"]">>,
                            groups[1]),
             name, Tail(groups), idx + 1)

\* lines 92-93: order[field] = direction
RECURSIVE CompileOrder(_, _)
CompileOrder(params, entries) ==
    IF entries = <<>> THEN params
    ELSE CompileOrder(
             Put(params, <<"o", "r", "d", "e", "r">>
                 \o Brackets(<<entries[1].key>>),
                 entries[1].value),
             Tail(entries))

\* lines 123-124: for[field] = str(value)
RECURSIVE CompileFor(_, _)
CompileFor(params, entries) ==
    IF entries = <<>> THEN params
    ELSE CompileFor(
             Put(params, <<"f", "o", "r">> \o Brackets(<<entries[1].key>>),
                 PyStr(entries[1].value)),
             Tail(entries))

\* "if name in kwargs: params[key] = ..."
IfGiven(params, kwargs, name, wireKey, value) ==
    IF name \in DOMAIN kwargs THEN Put(params, wireKey, value) ELSE params

\* the value of a keyword argument, where it is read only if it was given
Arg(kwargs, name) == IF name \in DOMAIN kwargs THEN kwargs[name] ELSE PyInt(0)

ArgList(kwargs, name) == IF name \in DOMAIN kwargs THEN kwargs[name] ELSE <<>>

build_params(kwargs) ==
    LET p1 == CompileEntries(EmptyDict, <<"f", "i", "l", "t", "e", "r">>,
        ArgList(kwargs, "filter"))
        p2 == CompileGroups(p1, <<"f", "i", "l", "t", "e", "r", "O", "r">>,
            ArgList(kwargs, "filter_or"), 0)
        p3 == CompileGroups(p2, <<"f", "i", "l", "t", "e", "r", "A", "n",
            "d">>, ArgList(kwargs, "filter_and"), 0)
        p4 == CompileOrder(p3, ArgList(kwargs, "order"))
        p5 == IfGiven(p4, kwargs, "fields", <<"f", "i", "e", "l", "d", "s">>,
                      JoinTexts(<<",">>, ArgList(kwargs, "fields")))
        p6 == IfGiven(p5, kwargs, "extra_fields", <<"e", "x", "t", "r", "a",
            "_", "f", "i", "e", "l", "d", "s">>,
                      JoinTexts(<<",">>, ArgList(kwargs, "extra_fields")))
        p7 == IfGiven(p6, kwargs, "limit", <<"p", "a", "g", "e", "[", "l",
            "i", "m", "i", "t", "]">>,
                      PyStr(Arg(kwargs, "limit")))
        p8 == IfGiven(p7, kwargs, "page", <<"p", "a", "g", "e", "[", "n",
            "u", "m", "b", "e", "r", "]">>,
                      PyStr(Arg(kwargs, "page")))
        p9 == IfGiven(p8, kwargs, "offset", <<"p", "a", "g", "e", "[", "o",
            "f", "f", "s", "e", "t", "]">>,
                      PyStr(Arg(kwargs, "offset")))
        p10 == IfGiven(p9, kwargs, "with_relations",
                       <<"s", "e", "t", "t", "i", "n", "g", "[", "w", "i",
                           "t", "h", "_", "r", "e", "l", "a", "t", "i", "o",
                           "n", "s", "]">>,
                       Lower(PyStr(Arg(kwargs, "with_relations"))))
        p11 == IfGiven(p10, kwargs, "with_cache",
                       <<"s", "e", "t", "t", "i", "n", "g", "[", "w", "i",
                           "t", "h", "_", "c", "a", "c", "h", "e", "]">>,
                       Lower(PyStr(Arg(kwargs, "with_cache"))))
        p12 == IfGiven(p11, kwargs, "limit_to_my_settings",
                       <<"s", "e", "t", "t", "i", "n", "g", "[", "l", "i",
                           "m", "i", "t", "_", "t", "o", "_", "m", "y", "_",
                           "s", "e", "t", "t", "i", "n", "g", "s", "]">>,
                       Lower(PyStr(Arg(kwargs, "limit_to_my_settings"))))
        p13 == IfGiven(p12, kwargs, "lang",
                       <<"s", "e", "t", "t", "i", "n", "g", "[", "l", "a",
                           "n", "g", "]">>,
                       ArgList(kwargs, "lang"))
    IN  CompileFor(p13, ArgList(kwargs, "for_metadata"))

\* the inputs of the model: entries of filter dicts
Entry(key, value) == [key |-> key, value |-> value]

FilterEntries ==
    {Entry(<<"n">>, PyText(<<"x">>)),
     Entry(<<"n", "_", "_", "e", "q">>, PyInt(18)),
     Entry(<<"a", ".", "4", "_", "_", "h", "a", "s", "T", "e", "x", "t">>,
         PyText(<<"x">>)),
     Entry(<<"c", ".", "p">>, PyInt(1)),
     Entry(<<"4">>, PyInt(1)),
     Entry(<<"i", "d", "_", "_", "i", "n">>, PyList(<<1, 2, 3>>)),
     Entry(<<"i", "d", "_", "_", "i", "n">>, PyTuple(<<1, 2, 3>>)),
     Entry(<<"i", "d", "_", "_", "i", "n">>, PyInt(5)),
     Entry(<<"s", "_", "_", "i", "s", "N", "u", "l", "l">>, PyBool(TRUE)),
     Entry(<<"b">>, PyBool(TRUE)),
     Entry(<<"a", "_", "_", "b", "_", "_", "g", "t">>, PyInt(18)),
     Entry(<<"t", "_", "_", "c", "o", "n", "t", "a", "i", "n", "s">>,
         PyText(<<"x">>))}

\* a dict given to build_params holds at most MaxEntries entries
MaxEntries == 2

\* the dicts over FilterEntries, as the list of their items: no key twice
EntryLists ==
    {l \in UNION {[1..n -> FilterEntries] : n \in 1..MaxEntries} :
        \A i, j \in 1..Len(l) : i # j => l[i].key # l[j].key}

\* one group per entry, as filter_or=[{...}, {...}]
Groups(l) == [i \in 1..Len(l) |-> <<l[i]>>]

Given(name, value) == Put(EmptyDict, name, value)

\* the keyword arguments other than the filters, one at a time
Others ==
    {Given("order", <<Entry(<<"n">>, <<"a", "s", "c">>)>>),
     Given("fields", <<<<"i", "d">>, <<"n">>>>),
     Given("extra_fields", <<<<"n">>>>),
     Given("limit", PyInt(50)),
     Given("page", PyInt(2)),
     Given("offset", PyInt(100)),
     Given("with_relations", PyBool(TRUE)),
     Given("with_relations", PyBool(FALSE)),
     Given("with_cache", PyBool(FALSE)),
     Given("limit_to_my_settings", PyBool(TRUE)),
     Given("lang", <<"p", "l">>),
     Given("for_metadata", <<Entry(<<"i", "d">>, PyInt(1))>>),
     Given("for_metadata", <<Entry(<<"b">>, PyBool(TRUE))>>)}

\* the calls of build_params the model makes
KwargsSet ==
    {EmptyDict} \cup Others
    \cup {Given("filter", l) : l \in EntryLists}
    \cup {Given("filter_or", Groups(l)) : l \in EntryLists}
    \cup {Given("filter_and", Groups(l)) : l \in EntryLists}
    \cup {Merge(Given("filter", l), o) :
             l \in {x \in EntryLists : Len(x) = 1}, o \in Others}

\* no build_params call was made and no Q object was built
ExprInit ==
    expr = [kwargs |-> EmptyDict, wire |-> EmptyDict, again |-> EmptyDict,
            calls |-> 0, heap |-> <<>>,
            qop |-> [name |-> "none", self |-> 0, other |-> 0], root |-> 0,
            parsed |-> <<>>]

\* build_params(**kwargs) is called
BuildParams ==
    \E kw \in KwargsSet :
        /\ nCalls = 0 /\ keyParsed = <<>>
        /\ expr' = [expr EXCEPT !.kwargs = kw, !.wire = build_params(kw),
                                !.calls = 1]
        /\ UNCHANGED <<authVars, pageVars, qs, record>>

\* build_params is called again with the same keyword arguments
BuildParamsAgain ==
    /\ nCalls = 1
    /\ expr' = [expr EXCEPT !.again = build_params(kwargsGiven), !.calls = 2]
    /\ UNCHANGED <<authVars, pageVars, qs, record>>

\* key.split(sep, 1)
SplitFirst(text, sep) ==
    IF Find(text, sep) = 0 THEN <<text>>
    ELSE <<SubSeq(text, 1, Find(text, sep) - 1),
           SubSeq(text, Find(text, sep) + Len(sep), Len(text))>>

\* parse_filter_key of v2/utils.py
parse_filter_key(key) ==
    LET parts == SplitFirst(key, DoubleUnderscore)
    IN  IF Len(parts) = 1 THEN <<parts[1], <<"e", "q">>>>
        ELSE <<parts[1], parts[2]>>

\* the keys given to the parsers
FilterKeys == {e.key : e \in FilterEntries}

\* a key is parsed by the two parsers of the package: lines 21-24 of
\* _parse_filter_key (_params.py) and parse_filter_key (v2/utils.py)
ParseKey ==
    \E key \in FilterKeys :
        /\ nCalls = 0
        /\ expr' = [expr EXCEPT !.parsed = [key |-> key,
                                            by_params |-> SplitKey(key),
                                            by_utils |-> parse_filter_key(key)]]
        /\ UNCHANGED <<authVars, pageVars, qs, record>>

ParamNext == BuildParams \/ BuildParamsAgain \/ ParseKey

ParamSpecInit == AuthInit /\ PageIdle /\ QsIdle /\ RecIdle /\ ExprInit

ParamSpec == ParamSpecInit /\ [][ParamNext]_vars

(***************************************************************************)
(* Q (v2/q.py) and a Q object given to SWAPIQuerySet.filter / exclude.     *)
(* A Q object is its position in the heap; children holds positions.       *)
(***************************************************************************)
\* at most MaxNodes Q objects are built
MaxNodes == 3

\* the keyword arguments of Q(...)
LeafFilters ==
    {Given(<<"s", "_", "_", "e", "q">>, PyText(<<"o", "p", "e", "n">>)),
        Given(<<"p", "_", "_", "e", "q">>, PyText(<<"h", "i", "g", "h">>))}

\* Q.__init__
Q(filters) ==
    [filters |-> filters, children |-> <<>>, connector |-> "AND",
     negated |-> FALSE]

\* the Q operations: the heap after self & other, self | other, ~self
__and__(h, self, other) ==
    Append(h, [Q(EmptyDict) EXCEPT !.children = <<self, other>>,
                                   !.connector = "AND"])

__or__(h, self, other) ==
    Append(h, [Q(EmptyDict) EXCEPT !.children = <<self, other>>,
                                   !.connector = "OR"])

InvertInPlace(h, self) == [h EXCEPT ![self].negated = TRUE]

__invert__(h, self) ==
    Append(h, [Q(EmptyDict) EXCEPT !.children = <<self>>, !.negated = TRUE])

\* a Q operation was executed
Built(h, name, self, other) ==
    /\ Len(heap) < MaxNodes
    /\ expr' = [expr EXCEPT !.heap = h,
                            !.qop = [name |-> name, self |-> self,
                                     other |-> other]]
    /\ UNCHANGED <<authVars, pageVars, qs, record>>

QNew == \E filters \in LeafFilters : Built(Append(heap, Q(filters)), "Q", 0,
    0)

QAnd == \E a, b \in 1..Len(heap) : Built(__and__(heap, a, b), "and", a, b)

QOr == \E a, b \in 1..Len(heap) : Built(__or__(heap, a, b), "or", a, b)

QInvert == \E a \in 1..Len(heap) : Built(__invert__(heap, a), "invert", a, 0)

\* "def filter(self, **kwargs)" / "def exclude(self, **kwargs)": a call
\* with a positional argument cannot be bound to the signature
BindsPositionalAlways(args) == TRUE

BindsPositional(args) == args = <<>>

\* filter(*args) / exclude(*args) without keyword arguments: TypeError when
\* the call cannot be bound; otherwise the loop over kwargs runs over
\* nothing and self is returned
FilterCall(name, args) ==
    /\ expr' = [expr EXCEPT !.root = args[1]]
    /\ qs' = [queryset |-> queryset, op |-> name, gets |-> <<>>,
              res |-> [kind |-> IF BindsPositional(args) THEN "self"
                                ELSE "TypeError",
                       value |-> 0]]
    /\ UNCHANGED <<authVars, pageVars, record>>

QsFilterQ == \E q \in 1..Len(heap) : FilterCall("filter", <<q>>)

QsExcludeQ == \E q \in 1..Len(heap) : FilterCall("exclude", <<q>>)

QNext == QNew \/ QAnd \/ QOr \/ QInvert \/ QsFilterQ \/ QsExcludeQ

QSpecInit == AuthInit /\ PageIdle /\ RecIdle /\ QsFresh /\ ExprInit

QSpec == QSpecInit /\ [][QNext]_vars

(***************************************************************************)
(* Properties of SWAPIClient, checked under Spec and FairSpec.             *)
(***************************************************************************)
Waits(r) == pc[r] \in {"wait1", "wait2"}

Done(r) == pc[r] = "done"

\* the tokens that login() calls have stored so far
StoredTokens == ({tok1[r] : r \in Req} \cup {tok2[r] : r \in Req}) \ {NoTok}

\* r's login at line 105 is in flight, or it stored a token
InitLoginNotFailed(r) ==
    initLogins[r] >= 1 /\ (pc[r] = "login1" \/ tok1[r] # NoTok)

\* C1: however many _request calls start while no token is held, at most one
\* login() made for want of a token is in flight or has stored a token (so
\* when the first one succeeds it is the only one: every further one
\* follows a failed one), no call makes more than one such login, and every
\* request is first sent with a token that a login() stored.
C1_SingleLogin ==
    /\ Cardinality({r \in Req : InitLoginNotFailed(r)}) <= 1
    /\ \A r \in Req :
        /\ initLogins[r] <= 1
        /\ Len(sent[r]) >= 1 => sent[r][1] \in StoredTokens

\* two calls started without a token; one logged in, the other waited for
\* the lock, found the token and sent its request with it, without a login
C1_Witness ==
    \E r, x \in Req :
        /\ r # x
        /\ tok1[r] # NoTok
        /\ pc[x] = "send1"
        /\ sawLogin[x]
        /\ initLogins[x] = 0
        /\ sent[x] = <<tok1[r]>>

\* C2: a _request call sends at most two requests and makes at most one
\* re-login; it re-logs in exactly when its first response is 401 (once it
\* holds the lock); and it sends a second request exactly when that re-login
\* stored a token, carrying that token.
C2_RetryOnce ==
    \A r \in Req :
        /\ Len(sent[r]) <= 2
        /\ reLogins[r] <= 1
        /\ reLogins[r] = 1 => resp[r] # <<>> /\ resp[r][1] = 401
        /\ (resp[r] # <<>> /\ resp[r][1] = 401 /\ ~Waits(r)
              /\ res[r] # "CancelledError") => reLogins[r] = 1
        /\ Len(sent[r]) = 2 =>
              /\ reLogins[r] = 1
              /\ tok2[r] # NoTok
              /\ sent[r][2] = tok2[r]
        /\ (tok2[r] # NoTok /\ pc[r] # "close2" /\ res[r] # "CancelledError")
              => Len(sent[r]) = 2

\* a call got 401, re-logged in, sent again with the new token and returned
C2_Witness ==
    \E r \in Req :
        /\ Done(r)
        /\ resp[r] = <<401, 200>>
        /\ res[r] = "return"
        /\ reLogins[r] = 1
        /\ Len(sent[r]) = 2
        /\ sent[r][2] = tok2[r]
        /\ sent[r][2] # sent[r][1]

\* C3: a _request call whose retried request is answered 401 too ends with
\* SWAPIAuthError, after one re-login and two sends.
C3_SecondExpiryIsAuthError ==
    \A r \in Req :
        (Done(r) /\ Len(resp[r]) = 2 /\ resp[r][2] = 401) =>
            /\ res[r] = "SWAPIAuthError"
            /\ reLogins[r] = 1
            /\ Len(sent[r]) = 2

\* C4: a request that was suspended in acquire() while another request's
\* login stored a token makes no login of its own once it holds the lock,
\* at line 105 and at line 118.
C4_DoubleChecked ==
    \A r \in Req : sawLogin[r] => pc[r] \notin {"login1", "login2"}

\* One step as C5 allows it: a login() answered with a status below 400
\* and a token stores that token and does not raise; answered otherwise it
\* raises SWAPIAuthError and leaves the token as it was; a login() ended by
\* a transport exception or a cancellation leaves the token as it was; and
\* nothing else changes the token.
C5_LoginStep ==
    /\ \A r \in Req, status \in Statuses :
         \A tok \in {NoTok, TokenOf(r, pc[r])} :
            LoginResp(r, status, tok) =>
               IF status < 400 /\ tok # NoTok
               THEN token' = tok /\ res'[r] = res[r]
               ELSE token' = token /\ res'[r] = "SWAPIAuthError"
    /\ \A r \in Req : (TransportError(r) \/ Cancel(r)) => token' = token
    /\ token' # token =>
         \E r \in Req, status \in Statuses :
            LoginResp(r, status, TokenOf(r, pc[r]))

C6_NoWaiterStuck == \A r \in Req : Waits(r) ~> ~Waits(r)

\* a login failed or was cancelled before any token was stored, and the
\* lock went to a call that was waiting for it
C6_Witness ==
    \E r, x \in Req :
        /\ r # x
        /\ Done(r)
        /\ initLogins[r] = 1
        /\ res[r] \in {"SWAPIAuthError", "TransportError", "CancelledError"}
        /\ token = NoTok
        /\ pc[x] = "wait1"
        /\ lockHolder = x

\* C7: a _request call whose first response has a status that is neither
\* 2xx nor 401 raises SWAPIError for that status, after one send and
\* without a re-login.
C7_ErrorStatusRaises ==
    \A r \in Req :
        (resp[r] # <<>> /\ resp[r][1] # 401
             /\ ~(resp[r][1] >= 200 /\ resp[r][1] < 300)) =>
            /\ res[r] = "SWAPIError"
            /\ Len(sent[r]) = 1
            /\ reLogins[r] = 0

\* C28: when a request is answered 401 for the stored token, the stored
\* token becomes absent, and no request is sent afterwards with a token for
\* which a 401 has been observed.
Rejected(tok) ==
    \E r \in Req : \E i \in 1..Len(resp[r]) :
        resp[r][i] = 401 /\ sent[r][i] = tok

C28_Step ==
    \A r \in Req :
        /\ (/\ Len(resp'[r]) > Len(resp[r])
            /\ resp'[r][Len(resp'[r])] = 401
            /\ sent[r][Len(resp'[r])] = token)
              => token' = NoTok
        /\ (/\ Len(sent'[r]) > Len(sent[r])
            /\ sent'[r][Len(sent'[r])] # NoTok)
              => ~Rejected(sent'[r][Len(sent'[r])])

C28_NoTokenAfter401 == [][C28_Step]_vars

\* r has called login() and the call has not returned or raised yet
InLogin(r) == pc[r] \in {"login1", "login2", "close1", "close2"}

\* C34: at most one login() call made by _request is in flight at any
\* moment, and the call that made it holds the login lock, on the no-token
\* path (line 105) and on the 401 path (line 118) alike
C34_OneLoginInFlight ==
    /\ Cardinality({r \in Req : InLogin(r)}) <= 1
    /\ \A r \in Req : InLogin(r) => lockHolder = r

\* one call is in its re-login after a 401 while another, which also
\* received a 401, is suspended on the lock
C34_Witness ==
    \E r, x \in Req :
        /\ pc[r] = "login2"
        /\ pc[x] = "wait2"
        /\ resp[x] = <<401>>

(***************************************************************************)
(* Properties of the fetch-all traversals, checked under PageSpec.         *)
(***************************************************************************)
\* C8: all() and get_all_pages stop after a page with no items, after a
\* page with fewer items than the page size, and once the accumulated
\* count has reached the reported total.
C8_ThreeStopConditions ==
    (/\ algo \in {"all", "get_all_pages"}
     /\ fetches >= 1
     /\ \/ lastLen = 0
        \/ lastLen < limit
        \/ lastTotal # NoMeta /\ nItems >= lastTotal)
    => pcT = "done"

\* C9: against the well-behaved server holding at least one item, all() and
\* get_all_pages make at most ceil(total/limit) fetches; against the server
\* that returns no items and no total they stop after exactly one fetch.
C9_FetchBound ==
    /\ (algo \in {"all", "get_all_pages"} /\ srv = "well" /\ srvTotal >= 1)
          => fetches <= Ceil(srvTotal, limit)
    /\ (algo \in {"all", "get_all_pages"} /\ srv = "empty" /\ pcT = "done")
          => fetches = 1

\* C10: every traversal has stopped before its FetchCap-th page fetch,
\* whatever the server answers (FetchCap is above what any accurate total of
\* the model needs, so this bounds the traversal against every server).
C10_Terminates == pcT = "loop" => fetches < FetchCap

\* C29: every request of a fetch-all traversal addresses its page by exactly
\* one mode, page[number] or page[offset], never both, and by the same
\* mode as the request before it, whatever the caller passed in.
AddressingModes(req) == DOMAIN req \cap {"page[number]", "page[offset]"}

C29_Step ==
    /\ fetches' > fetches => Cardinality(AddressingModes(pageRequest')) = 1
    /\ (fetches' > fetches /\ fetches >= 1)
          => AddressingModes(pageRequest') = AddressingModes(pageRequest)

C29_OneAddressingMode == [][C29_Step]_vars

\* a step of SyncResource.all / AsyncResource.all that fetched a page
AllFetched == algo = "all" /\ fetches' = fetches + 1

\* C38: the k-th fetch of all() asks for page k with the limit of the
\* call, the items of the page are added to those of the pages before it,
\* and after a response without meta.total the traversal is done, also
\* when the page was full
C38_Step ==
    AllFetched =>
        /\ pageRequest'["page[number]"] = fetches + 1
        /\ pageRequest'["page[limit]"] = limit
        /\ limit' = limit
        /\ nItems' = nItems + lastLen'
        /\ lastTotal' = NoMeta => pcT' = "done"
        /\ pcT' = "loop" => cursor' = cursor + 1

TheGet == qsGets[1]

\* the server answered that GET with this status
Answered(status) == TheGet.out.via = "status" /\ TheGet.out.status = status

\* C11: whenever the server answers the keyed GET of get(id) with 404,
\* get(id) raises SWAPINotFoundError, for every id.
C11_NotFoundOn404 ==
    qsOp = "get" /\ Answered(404) => qsRes.kind = "SWAPINotFoundError"

\* a 404 for an id without the digits 404, with an empty body
C11_Witness ==
    /\ qsOp = "get"
    /\ Answered(404)
    /\ TheGet.path = endpoint \o <<"/", "7">>
    /\ TheGet.out.text = <<>>
    /\ qsRes.kind = "SWAPINotFoundError"

\* the total a decoded list response reports: meta.page.total_count, or
\* meta.page.total when there is no total_count
ReportedTotal == IF TheGet.total_count # None THEN TheGet.total_count ELSE TheGet.total

\* C12: count() issues exactly one GET, constrained to a one-item page, and
\* returns the total the response reports whenever it reports one (a total
\* of 0 included); only when it reports none does it return the number of
\* items in data.
C12_CountReturnsTotal ==
    qsOp = "count" /\ TheGet.out.via = "return" =>
        /\ Len(qsGets) = 1
        /\ TheGet.path = endpoint
        /\ TheGet.params["page[limit]"] = 1
        /\ qsRes.kind = "int"
        /\ qsRes.value = IF ReportedTotal # None THEN ReportedTotal ELSE TheGet.data

\* C30: when the keyed GET of get(id) fails with a status other than 404,
\* get(id) raises the transport's SWAPIError and never
\* SWAPINotFoundError, for every id, ids containing the digits 404
\* included.
C30_OnlyNotFoundTranslated ==
    (qsOp = "get" /\ TheGet.out.via = "status" /\ ~Answered(404))
        => qsRes.kind = "SWAPIError"

(***************************************************************************)
(* Properties of APIModel and Commission, checked under RecSpec.           *)
(***************************************************************************)
\* a dict of field values as JSON: every DynamicObject as the object in it
Content(d) == [k \in DOMAIN d |-> _serialize(d[k])]

\* the loaded fields that hold a string, a number or None now and in the
\* snapshot: values Python compares by content
Scalar(value) == value \notin {"obj", "dyn"}

ScalarFields ==
    {k \in DOMAIN original \cap DOMAIN fields :
        Scalar(fields[k]) /\ Scalar(original[k])}

\* the requests of the last operation made with this method
Sent(calls, method) == {i \in 1..Len(calls) : calls[i].method = method}

\* C13: the dirty set contains exactly the loaded fields whose current value
\* differs from the original snapshot, so a field set from "A" to "B" and
\* back to "A" is not dirty.  Stated for the fields with scalar values.
C13_DirtyIsExact ==
    \A k \in ScalarFields : (k \in DOMAIN dirty) <=> (fields[k] # original[k])

\* C14, one step: a record just constructed from server JSON has nothing
\* dirty and its snapshot is the loaded data, and assigning a field the value
\* of its snapshot then leaves the dirty set empty.
C14_Step ==
    recOp.name = "init" =>
        /\ dirty = EmptyDict
        /\ original = Content(fields)
        /\ (/\ recOp'.name = "setattr"
            /\ recOp'.key \in DOMAIN original
            /\ recOp'.value = original[recOp'.key]) => dirty' = EmptyDict

C15_Step ==
    recOp'.name = "save" /\ pk # "None" /\ dirty # EmptyDict =>
        /\ Len(recCalls') = 1
        /\ recCalls'[1].method = "PATCH"
        /\ recCalls'[1].pk = pk
        /\ DOMAIN recCalls'[1].body = DOMAIN dirty
        /\ \A k \in DOMAIN dirty : recCalls'[1].body[k] = fields[k]
        /\ recRes' = "self" =>
              /\ dirty' = EmptyDict
              /\ Content(original') = recCalls'[1].data

\* C15: save() on a persisted record with pending changes sends exactly one
\* PATCH holding only the dirty fields at their current values, and on
\* success clears the dirty set and re-snapshots from the response.
C15_SaveSendsCurrentValues == [][C15_Step]_vars

\* C16, one step: save() of a record with a primary key and an empty dirty
\* set makes no request, returns the record and changes nothing.
C16_Step ==
    recOp'.name = "save" /\ pk # "None" /\ dirty = EmptyDict =>
        /\ recCalls' = <<>>
        /\ recRes' = "self"
        /\ fields' = fields
        /\ original' = original
        /\ dirty' = dirty

\* C16: save() on a persisted record with an empty dirty set makes no
\* network call, succeeds and leaves fields, snapshot and dirty set alone.
C16_CleanSaveIsNoOp == [][C16_Step]_vars

\* a save() that sent nothing and returned the record
C16_Witness ==
    /\ recOp.name = "save"
    /\ recCalls = <<>>
    /\ recRes = "self"
    /\ pk # "None"
    /\ dirty = EmptyDict

\* C17, one step: save() POSTs the full field set exactly when there is no
\* primary key and PATCHes exactly when there is one and something is dirty;
\* a successful save of an unsaved record leaves it persisted (primary key
\* present, nothing dirty, snapshot replaced by the response); a save()
\* straight after a successful save() makes no request.
C17_Step ==
    /\ recOp'.name = "save" =>
        /\ (Sent(recCalls', "POST") # {}) <=> (pk = "None")
        /\ (Sent(recCalls', "PATCH") # {}) <=> (pk # "None" /\ dirty # EmptyDict)
        /\ Len(recCalls') <= 1
        /\ \A i \in Sent(recCalls', "POST") :
              \A k \in DOMAIN fields :
                  /\ k \in DOMAIN recCalls'[i].body
                  /\ recCalls'[i].body[k] = _serialize(fields[k])
    /\ recOp'.name = "save" /\ pk = "None" /\ recRes' = "self" =>
        /\ PkOf(fields') # "None"
        /\ dirty' = EmptyDict
        /\ Content(original') = recCalls'[1].data
    /\ recOp.name = "save" /\ recRes = "self" /\ recOp'.name = "save" =>
        recCalls' = <<>>

\* C17: the save() state machine: POST without a primary key, PATCH with
\* one and pending changes; after the successful save of an unsaved record
\* it is persisted, so a following save() sends nothing and never a second
\* POST.
C17_SaveStateMachine == [][C17_Step]_vars

\* C18, one step: once a delete() has succeeded, save() and delete() fail
\* and send nothing.
C18_Step ==
    deleted /\ recOp'.name \in {"save", "delete"} =>
        /\ recCalls' = <<>>
        /\ recRes' = "SWAPIError"

\* C18: after a successful delete() the record is in the terminal state
\* Deleted: every later save() or delete() fails and issues no request.
C18_DeletedIsTerminal == [][C18_Step]_vars

\* C19, one step: delete() without a primary key raises SWAPIError, sends
\* nothing and changes nothing; with one it sends one DELETE for that key.
C19_Step ==
    recOp'.name = "delete" =>
        IF pk = "None"
        THEN /\ recRes' = "SWAPIError"
             /\ recCalls' = <<>>
             /\ UNCHANGED <<fields, original, dirty, attributes,
                            attributesById, attributesDirty>>
        ELSE /\ Len(recCalls') = 1
             /\ recCalls'[1].method = "DELETE"
             /\ recCalls'[1].pk = pk

\* C19: delete() on a record without a primary key fails with a state
\* error and no network call; with a primary key it issues exactly one
\* DELETE addressed by that key.
C19_DeleteNeedsKey == [][C19_Step]_vars

\* a delete() refused for want of a primary key
C19_Witness ==
    /\ recOp.name = "delete"
    /\ pk = "None"
    /\ recCalls = <<>>
    /\ recRes = "SWAPIError"

\* C20, one step, for a Commission whose attributes accessor is the proxy:
\* attributes.set() leaves the dirty set alone; save() leaves the attribute
\* buffer alone, does not send it and leaves the accessor the proxy;
\* save_attributes() sends only the buffer, as the attributes array, clears
\* only the buffer and neither sends nor clears the dirty set.
C20_Step ==
    cls = "Commission" /\ attributes = "proxy" =>
        /\ recOp'.name = "attributes.set" => dirty' = dirty
        /\ recOp'.name = "save" =>
              /\ attributesDirty' = attributesDirty
              /\ \A i \in 1..Len(recCalls') : recCalls'[i].kind # "attributes"
              /\ attributes' = "proxy"
        /\ recOp'.name = "save_attributes" =>
              /\ dirty' = dirty
              /\ \A i \in 1..Len(recCalls') :
                    /\ recCalls'[i].kind = "attributes"
                    /\ recCalls'[i].body = attributesDirty
              /\ recCalls' # <<>> /\ recRes' = "None" =>
                    attributesDirty' = EmptyDict

\* C20: the attribute sub-collection of a Commission is independent of the
\* dirty tracking of the record, and save() leaves the attributes accessor
\* a working proxy.
C20_AttributesIndependent == [][C20_Step]_vars

\* the step is a save() whose POST or PATCH raised
SaveFailed ==
    /\ recOp'.name = "save"
    /\ recCalls' # <<>>
    /\ recCalls'[1].end # "return"

\* C35: when the POST or PATCH of save() raises, the fields, the original
\* snapshot and the dirty set of the record are what they were before the
\* call, and the request a further save() would make is the one just made
C35_Step ==
    SaveFailed =>
        /\ fields' = fields
        /\ original' = original
        /\ dirty' = dirty
        /\ attributes' = attributes
        /\ SaveRequest' = SaveRequest
        /\ recCalls'[1].body = SaveRequest.body
        /\ recCalls'[1].method = SaveRequest.method

C35_FailedSaveChangesNothing == [][C35_Step]_vars

\* the PATCH of a record with a changed field raised
C35_Witness ==
    /\ recOp.name = "save"
    /\ recRes \in {"SWAPIError", "TransportError"}
    /\ Len(recCalls) = 1 /\ recCalls[1].method = "PATCH"
    /\ dirty # EmptyDict
    /\ recCalls[1].body = dirty

\* the step is a save() that sent a PATCH
Patched ==
    /\ recOp'.name = "save"
    /\ recCalls' # <<>>
    /\ recCalls'[1].method = "PATCH"

\* C36: every key of the dirty set is a key of the original snapshot, so
\* the PATCH of save() carries only fields of the snapshot the record had
\* when save() was called
C36_Step ==
    /\ DOMAIN dirty' \subseteq DOMAIN original'
    /\ Patched => DOMAIN recCalls'[1].body \subseteq DOMAIN original

C33_AbsentInputsSendNothing ==
    (qsOp = "all" /\ queryset = FreshQuerySet) =>
        qsGets[1].params = EmptyDict

\* C37: first() and exists() set the page limit of the queryset they are
\* called on to 1, send it and leave it set, whether or not the request
\* succeeds; all() sends the page limit the queryset holds and changes
\* nothing; only page_limit, first and exists change the page limit
C37_Step ==
    /\ qsOp' \in {"first", "exists"} =>
          /\ queryset' = [queryset EXCEPT !.page_limit = 1]
          /\ qsGets'[1].params["page[limit]"] = 1
    /\ qsOp' = "all" =>
          /\ queryset' = queryset
          /\ queryset.page_limit # None =>
                qsGets'[1].params["page[limit]"] = queryset.page_limit
    /\ qsOp' \notin {"first", "exists", "page_limit"} =>
          queryset'.page_limit = queryset.page_limit

C37_FirstLeavesLimitOne == [][C37_Step]_vars

\* all() asked for pages of one item: no page_limit call sets 1 here, so
\* a first() or exists() came before it
C37_Witness ==
    /\ qsOp = "all"
    /\ qsRes.kind = "list"
    /\ queryset.page_limit = 1
    /\ qsGets[1].params["page[limit]"] = 1

(***************************************************************************)
(* Properties of build_params, checked under ParamSpec.                    *)
(***************************************************************************)
\* the entries of the filter dicts of the call, each with the prefix its
\* wire key starts with
Prefixed(name, wireName) ==
    IF name \in DOMAIN kwargsGiven
    THEN UNION {{[prefix |-> wireName \o <<"[">> \o Str(g - 1) \o <<"]">>,
                  entry |-> kwargsGiven[name][g][i]] :
                    i \in 1..Len(kwargsGiven[name][g])} :
                g \in 1..Len(kwargsGiven[name])}
    ELSE {}

GivenFilters ==
    (IF "filter" \in DOMAIN kwargsGiven
     THEN {[prefix |-> <<"f", "i", "l", "t", "e", "r">>,
         entry |-> kwargsGiven["filter"][i]] :
              i \in 1..Len(kwargsGiven["filter"])}
     ELSE {})
    \cup Prefixed("filter_or", <<"f", "i", "l", "t", "e", "r", "O", "r">>)
    \cup Prefixed("filter_and", <<"f", "i", "l", "t", "e", "r", "A", "n",
        "d">>)

\* the wire key of a filter key: one bracket pair per segment of the field
\* path when a segment is numeric, the whole path in one pair otherwise,
\* then the operator in a pair of its own
PathKey(prefix, key) ==
    LET field == SplitKey(key)[1]
        segments == Split(field, <<".">>)
    IN  prefix
        \o (IF \E i \in 1..Len(segments) : isdigit(segments[i])
            THEN Brackets(segments)
            ELSE <<"[">> \o field \o <<"]">>)
        \o <<"[">> \o SplitKey(key)[2] \o <<"]">>

\* C21: the wire keys of a build_params call with filters only are exactly
\* the keys PathKey gives for its filter keys: one bracket pair per segment
\* when a segment of the field path is numeric, the dots kept inside one
\* pair otherwise, followed by the operator's pair.
C21_BracketPerNumericPath ==
    (nCalls >= 1
     /\ DOMAIN kwargsGiven \subseteq {"filter", "filter_or", "filter_and"})
        => DOMAIN wire = {PathKey(f.prefix, f.entry.key) : f \in GivenFilters}

\* attributes.476__hasText and commissionPhase.commissionPhaseId, shortened
C21_Witness ==
    /\ nCalls = 1
    /\ kwargsGiven =
         Given("filter",
               <<Entry(<<"a", ".", "4", "_", "_", "h", "a", "s", "T", "e",
                   "x", "t">>, PyText(<<"x">>)),
                 Entry(<<"c", ".", "p">>, PyInt(1))>>)
    /\ DOMAIN wire = {<<"f", "i", "l", "t", "e", "r", "[", "a", "]", "[",
        "4", "]", "[", "h", "a", "s", "T", "e", "x", "t", "]">>, <<"f", "i",
        "l", "t", "e", "r", "[", "c", ".", "p", "]", "[", "e", "q", "]">>}
    /\ wire[<<"f", "i", "l", "t", "e", "r", "[", "a", "]", "[", "4", "]",
        "[", "h", "a", "s", "T", "e", "x", "t", "]">>] = <<"x">>
    /\ wire[<<"f", "i", "l", "t", "e", "r", "[", "c", ".", "p", "]", "[",
        "e", "q", "]">>] = <<"1">>


\* the operator of a filter key
OpOf(key) == SplitKey(key)[2]

\* the wire key of f is the wire key of no other filter of the call
Alone(f) ==
    \A g \in GivenFilters :
        PathKey(g.prefix, g.entry.key) = PathKey(f.prefix, f.entry.key)
            => g = f

\* C22: a filter value that is a list or a tuple compiles to the
\* comma-joined string of its elements in order, under filter, filter_or
\* and filter_and alike.
C22_SequencesCommaJoined ==
    nCalls >= 1 =>
        \A f \in GivenFilters :
            (/\ f.entry.value.type \in {"list", "tuple"}
             /\ OpOf(f.entry.key) \notin NullOps
             /\ Alone(f))
                => wire[PathKey(f.prefix, f.entry.key)]
                     = JoinTexts(<<",">>, StrEach(f.entry.value.items))

\* the texts true and false
LowercaseBooleans == {<<"t", "r", "u", "e">>, <<"f", "a", "l", "s", "e">>}

\* the values of the call that are booleans, each with its wire key
GivenBooleans ==
    {[key |-> PathKey(f.prefix, f.entry.key), value |-> f.entry.value] :
        f \in {g \in GivenFilters :
                  OpOf(g.entry.key) \notin NullOps /\ Alone(g)}}
    \cup (IF "for_metadata" \in DOMAIN kwargsGiven
          THEN {[key |-> <<"f", "o", "r">>
              \o Brackets(<<kwargsGiven["for_metadata"][i].key>>),
                 value |-> kwargsGiven["for_metadata"][i].value] :
                   i \in 1..Len(kwargsGiven["for_metadata"])}
          ELSE {})
    \cup {[key |-> <<"s", "e", "t", "t", "i", "n", "g", "[">> \o n.wire
        \o <<"]">>, value |-> kwargsGiven[n.kw]] :
             n \in {m \in {[kw |-> "with_relations", wire |-> <<"w", "i",
                 "t", "h", "_", "r", "e", "l", "a", "t", "i", "o", "n",
                 "s">>],
                           [kw |-> "with_cache", wire |-> <<"w", "i", "t",
                               "h", "_", "c", "a", "c", "h", "e">>],
                           [kw |-> "limit_to_my_settings",
                            wire |-> <<"l", "i", "m", "i", "t", "_", "t",
                                "o", "_", "m", "y", "_", "s", "e", "t", "t",
                                "i", "n", "g", "s">>]} :
                       m.kw \in DOMAIN kwargsGiven}}

\* C23: every boolean given to build_params, as a setting, as a filter
\* value or as a for_metadata value, is on the wire as the lowercase text
\* true or false.
C23_BooleansLowercase ==
    nCalls >= 1 =>
        \A x \in GivenBooleans :
            x.value.type = "bool" => wire[x.key] \in LowercaseBooleans

\* the filter dict of the call with its entries in the order p
Reordered(p) ==
    [kwargsGiven EXCEPT !["filter"] =
        [i \in 1..Len(p) |-> kwargsGiven["filter"][p[i]]]]

Orders(n) == {p \in [1..n -> 1..n] : \A i, j \in 1..n : i # j => p[i] # p[j]}

\* the wire key of the i-th entry of the filter dict of the call
FilterWireKey(i) ==
    PathKey(<<"f", "i", "l", "t", "e", "r">>, kwargsGiven["filter"][i].key)

\* the filter entries of the call compile to pairwise different wire keys
NoCollision ==
    \A i, j \in 1..Len(kwargsGiven["filter"]) :
        i # j => FilterWireKey(i) # FilterWireKey(j)

\* what build_params returns for a filter dict holding this entry alone
Alone1(entry) == build_params(Given("filter", <<entry>>))

C25_MalformedInIsRejected ==
    nCalls >= 1 =>
        \A f \in GivenFilters :
            (/\ OpOf(f.entry.key) = <<"i", "n">>
             /\ f.entry.value.type \notin {"list", "tuple"})
                => PathKey(f.prefix, f.entry.key) \notin DOMAIN wire



\* the operators of the wire format
Operators ==
    {<<"e", "q">>, <<"n", "e", "q">>, <<"l", "t">>, <<"l", "t", "e">>, <<"g",
        "t">>, <<"g", "t", "e">>, <<"i", "n">>, <<"n", "o", "t", "I", "n">>,
        <<"l", "i", "k", "e">>, <<"i", "l", "i", "k", "e">>,
     <<"n", "o", "t", "L", "i", "k", "e">>, <<"h", "a", "s", "T", "e", "x",
         "t">>, <<"i", "s", "N", "u", "l", "l">>, <<"i", "s", "N", "o", "t",
         "N", "u", "l", "l">>}

\* the text in the last bracket pair of a wire key
WireOp(k) == SubSeq(k, RFind(k, <<"[">>) + 1, Len(k) - 1)

\* C31: the operator of every filter parameter build_params compiles is one
\* of Operators, and it is eq for a key without operator suffix
C31_OperatorInSet ==
    nCalls >= 1 =>
        /\ \A k \in DOMAIN wire :
              SubSeq(k, 1, 6) = <<"f", "i", "l", "t", "e",
                  "r">> => WireOp(k) \in Operators
        /\ \A f \in GivenFilters :
              ~In(DoubleUnderscore, f.entry.key) =>
                  /\ PathKey(f.prefix, f.entry.key) \in DOMAIN wire
                  /\ WireOp(PathKey(f.prefix, f.entry.key)) = <<"e", "q">>

\* what the claim has a parser return for a key: the text before and the
\* text after the last double underscore, or the key and eq
SplitAtLast(key) ==
    IF In(DoubleUnderscore, key)
    THEN <<SubSeq(key, 1, RFind(key, DoubleUnderscore) - 1),
           SubSeq(key, RFind(key, DoubleUnderscore) + 2, Len(key))>>
    ELSE <<key, <<"e", "q">>>>

\* C32: both parsers split a key at its last double underscore, and give
\* the whole key and eq for a key without one
C32_ParsersSplitAtLast ==
    keyParsed # <<>> =>
        /\ keyParsed.by_params = SplitAtLast(keyParsed.key)
        /\ keyParsed.by_utils = SplitAtLast(keyParsed.key)

(***************************************************************************)
(* Properties of Q, checked under QSpec.                                   *)
(***************************************************************************)
\* the Q object the last operation returned
Newest == heap'[Len(heap')]

\* C26: an operation on Q objects changes no Q object that existed before
\* it: a & b, a | b and ~a each return a new object, whose children are the
\* operands and whose connector or negation flag is the operation's
C26_Step ==
    /\ Len(heap') >= Len(heap)
    /\ \A q \in 1..Len(heap) : heap'[q] = heap[q]
    /\ qop' # qop =>
        /\ Len(heap') = Len(heap) + 1
        /\ qop'.name = "and" =>
              /\ Newest.children = <<qop'.self, qop'.other>>
              /\ Newest.connector = "AND" /\ ~Newest.negated
        /\ qop'.name = "or" =>
              /\ Newest.children = <<qop'.self, qop'.other>>
              /\ Newest.connector = "OR" /\ ~Newest.negated
        /\ qop'.name = "invert" =>
              /\ Newest.children = <<qop'.self>> /\ Newest.negated

C26_CombinatorsBuildNewObjects == [][C26_Step]_vars

\* a Q object is a sub-expression of two larger expressions, one of them
\* its negation, and is still the leaf it was built as
C26_Witness ==
    \E a, b, c \in 1..Len(heap) :
        /\ b # c
        /\ heap[a] \in {Q(f) : f \in LeafFilters}
        /\ heap[b].children = <<a>> /\ heap[b].negated
        /\ heap[c].children = <<a, b>>

\* the Q objects of the expression tree under q that hold predicates
RECURSIVE Leaves(_)
Leaves(q) ==
    IF heap[q].children = <<>>
    THEN {q}
    ELSE UNION {Leaves(heap[q].children[c]) :
                    c \in 1..Len(heap[q].children)}

\* the field a keyword of Q(...) names
FieldOf(key) == Split(key, DoubleUnderscore)[1]

\* the predicate key = value of a leaf is among the filters of the query
Compiled(key) ==
    \E f \in 1..Len(queryset.filters) :
        \E k \in DOMAIN queryset.filters[f] :
            In(<<"[">> \o FieldOf(key) \o <<"]">>, k)

====
